---------------------------- MODULE Spec2Model ----------------------------
(***************************************************************************)
(* Model of arikawa's state package (state/state.go), the Store contract   *)
(* it wraps (state/store.go) and the guild pagination of the REST client   *)
(* (api/guild.go).                                                         *)
(*                                                                         *)
(* A State accessor is a Go method that runs to completion on one          *)
(* goroutine; it is modelled as a pure operator from a call context        *)
(* (the Store, the fewMessages memo, the log of outward calls made so far) *)
(* to the context after the call plus the returned (value, error) pair.    *)
(* The environment of a call (which Store reads fail, which REST requests  *)
(* fail, which Store write fails, whether the gateway send fails) is an    *)
(* oracle record drawn by the action that performs the call.               *)
(***************************************************************************)
EXTENDS Integers, Sequences, FiniteSets, TLC

VARIABLES
    store,        \* the Store behind State.Store
    fewMessages,  \* State.fewMessages: channels known to hold few messages
    cap,          \* Store.MaxMessages()
    history,      \* the identifiers of the messages each channel holds at
                  \* the service, oldest first
    focus,        \* the part of the Store this behaviour exercises
    last,         \* record of the most recent accessor call
    walk,         \* the state of one Client.Guilds walk or page request
    callers,      \* the goroutines that called State.Channel at the same time
    remote,       \* the version of that channel the service holds
    fewMutex,     \* State.fewMutex: 0, or the goroutine that holds it
    running       \* the goroutines that call State.Messages at the same time

vars ==
    <<store, fewMessages, cap, history, focus, last, walk, callers, remote,
      fewMutex, running>>

-----------------------------------------------------------------------------
(* Bounds of the model.                                                    *)

MaxRoles == 3
MaxHist == 2
MaxFew == 2
MaxPages == 2
MaxCap == 102
MaxCallers == 2
MaxCalls == 2
MaxRemote == 3
CapSmall == 2

GuildIDs == {1}
ChannelIDs == {1, 2}
UserIDs == {1, 2}
EmojiIDs == {1, 2}
RoleIDs == 1..MaxRoles
MessageIDs == 1..MaxHist

-----------------------------------------------------------------------------
(* Values.                                                                 *)

\* An optional value (a Go pointer or slice that may be nil): <<>> or <<v>>.
None == <<>>
Some(v) == <<v>>

Nil == "nil"
ErrStoreNotFound == "item not found in store"
ErrStoreIO == "store read failed"
ErrStoreWrite == "store write failed"
ErrFetch == "request failed"
ErrGateway == "gateway send failed"

\* The guild a channel belongs to at the service; 0 for a private channel.
ChanGuild(c) == IF c % 2 = 1 THEN 1 ELSE 0

UserRec(u) == [ID |-> u]
ChannelRec(c) == [ID |-> c, GuildID |-> ChanGuild(c)]
GuildRec(g) == [ID |-> g]
MemberRec(u) == [User |-> UserRec(u)]
MessageRec(c, m, g) == [ID |-> m, ChannelID |-> c, GuildID |-> g]
RoleRec(r) == [ID |-> r]
EmojiRec(e) == [ID |-> e]
PresenceRec(u) == [User |-> UserRec(u)]

SelfUser == UserRec(CHOOSE u \in UserIDs : TRUE)

Range(s) == {s[i] : i \in 1..Len(s)}

Min(a, b) == IF a < b THEN a ELSE b

\* A finite set of numbers as an increasing sequence.
RECURSIVE Sorted(_)
Sorted(S) ==
    IF S = {} THEN <<>>
    ELSE LET m == CHOOSE x \in S : \A y \in S : x <= y
         IN <<m>> \o Sorted(S \ {m})

-----------------------------------------------------------------------------
(* The call context threaded through a State method, and its log.          *)
(* A log entry records one outward call: k is "get"/"set" (Store),         *)
(* "api" (REST request through Session), "gw" (gateway command) or "few"   *)
(* (an append to fewMessages), n the method name, e the error it returned  *)
(* and v the value it returned (get, api) or was given (set, few).         *)

Entry(k, n, e, v) == [k |-> k, n |-> n, e |-> e, v |-> v]

Logged(c, k, n, e, v) == [c EXCEPT !.log = Append(@, Entry(k, n, e, v))]

Return(c, val, err) == [c EXCEPT !.val = val, !.err = err]

Kind(log, k) == SelectSeq(log, LAMBDA x : x.k = k)

\* The oracle of one call: the Store reads that fail with a backend error,
\* the REST requests that fail, the ordinal of the Store write that fails
\* (0: none) and whether the gateway send fails.
Envs(rds, apis, nw, gws) ==
    [rd : SUBSET rds, api : SUBSET apis, wr : 0..nw, gw : gws]

-----------------------------------------------------------------------------
(* The Store (state/store.go declares the interface; the default           *)
(* implementation keeps one map per entity type).  A getter answers        *)
(* ErrStoreNotFound for a key that holds nothing; any getter may also fail *)
(* with a backend error.  A setter overwrites the entry of the value's     *)
(* key; MessageSet keeps a channel's messages newest first and drops the   *)
(* oldest beyond MaxMessages().                                            *)

EmptyStore ==
    [self      |-> None,
     channels  |-> [c \in ChannelIDs |-> None],
     guilds    |-> [g \in GuildIDs |-> None],
     members   |-> [k \in GuildIDs \X UserIDs |-> None],
     messages  |-> [c \in ChannelIDs |-> None],
     roles     |-> [k \in GuildIDs \X RoleIDs |-> None],
     emojis    |-> [g \in GuildIDs |-> None],
     presences |-> [k \in GuildIDs \X UserIDs |-> None]]

\* The answer of a getter named n: a backend failure when the oracle says
\* so, else the value when there is one, else ErrStoreNotFound.
Got(c, env, n, found, val) ==
    LET e == IF n \in env.rd THEN ErrStoreIO
             ELSE IF found THEN Nil ELSE ErrStoreNotFound
        v == IF e = Nil THEN val ELSE None
    IN Return(Logged(c, "get", n, e, v), v, e)

\* A setter named n, given v, that would leave the Store as st: it fails,
\* changing nothing, when it is the write the oracle fails.
Put(c, env, n, v, st) ==
    LET failed == env.wr = Len(Kind(c.log, "set")) + 1
        e == IF failed THEN ErrStoreWrite ELSE Nil
    IN [Logged(c, "set", n, e, Some(v)) EXCEPT
            !.st = IF failed THEN c.st ELSE st, !.err = e]

StoreSelf(c, env) ==
    Got(c, env, "Self", c.st.self # None, c.st.self)

StoreChannel(c, env, id) ==
    Got(c, env, "Channel", id \in ChannelIDs /\ c.st.channels[id] # None,
        IF id \in ChannelIDs THEN c.st.channels[id] ELSE None)

StoreChannels(c, env, guildID) ==
    LET ids == {i \in ChannelIDs : c.st.channels[i] # None
                                   /\ c.st.channels[i][1].GuildID = guildID}
        s == Sorted(ids)
    IN Got(c, env, "Channels", ids # {},
           Some([i \in 1..Len(s) |-> c.st.channels[s[i]][1]]))

StoreGuild(c, env, id) ==
    Got(c, env, "Guild", id \in GuildIDs /\ c.st.guilds[id] # None,
        IF id \in GuildIDs THEN c.st.guilds[id] ELSE None)

StoreGuilds(c, env) ==
    LET ids == {i \in GuildIDs : c.st.guilds[i] # None}
        s == Sorted(ids)
    IN Got(c, env, "Guilds", ids # {},
           Some([i \in 1..Len(s) |-> c.st.guilds[s[i]][1]]))

StoreMember(c, env, guildID, userID) ==
    LET k == <<guildID, userID>>
    IN Got(c, env, "Member", c.st.members[k] # None, c.st.members[k])

StoreMembers(c, env, guildID) ==
    LET ids == {u \in UserIDs : c.st.members[<<guildID, u>>] # None}
        s == Sorted(ids)
    IN Got(c, env, "Members", ids # {},
           Some([i \in 1..Len(s) |-> c.st.members[<<guildID, s[i]>>][1]]))

StoreMessage(c, env, channelID, messageID) ==
    LET ms == IF c.st.messages[channelID] = None THEN <<>>
              ELSE c.st.messages[channelID][1]
        found == \E i \in 1..Len(ms) : ms[i].ID = messageID
    IN Got(c, env, "Message", found,
           IF found
           THEN Some(ms[CHOOSE i \in 1..Len(ms) : ms[i].ID = messageID])
           ELSE None)

StoreMessages(c, env, channelID) ==
    Got(c, env, "Messages", c.st.messages[channelID] # None,
        c.st.messages[channelID])

\* ms, newest first, with m put at the place of its identifier.
Inserted(ms, m) ==
    LET newer == Len(SelectSeq(ms, LAMBDA x : x.ID > m.ID))
    IN SubSeq(ms, 1, newer) \o <<m>>
           \o SelectSeq(SubSeq(ms, newer + 1, Len(ms)),
                        LAMBDA x : x.ID # m.ID)

MessageSet(c, env, m) ==
    LET old == IF c.st.messages[m.ChannelID] = None THEN <<>>
               ELSE c.st.messages[m.ChannelID][1]
        new == Inserted(old, m)
    IN Put(c, env, "MessageSet", m,
           [c.st EXCEPT !.messages[m.ChannelID] =
                            Some(SubSeq(new, 1, Min(Len(new), cap)))])

EmojiSet(c, env, guildID, emojis) ==
    Put(c, env, "EmojiSet", emojis,
        [c.st EXCEPT !.emojis[guildID] = Some(emojis)])

RoleSet(c, env, guildID, role) ==
    Put(c, env, "RoleSet", role,
        [c.st EXCEPT !.roles[<<guildID, role.ID>>] = Some(role)])

PresenceSet(st, guildID, presence) ==
    [st EXCEPT !.presences[<<guildID, presence.User.ID>>] = Some(presence)]

ChannelRemove(st, ch) == [st EXCEPT !.channels[ch.ID] = None]

MessageRemove(st, channelID, messageID) ==
    IF st.messages[channelID] = None THEN st
    ELSE [st EXCEPT !.messages[channelID] =
                        Some(SelectSeq(@[1], LAMBDA m : m.ID # messageID))]

StoreEmojis(c, env, guildID) ==
    Got(c, env, "Emojis", c.st.emojis[guildID] # None, c.st.emojis[guildID])

StoreEmoji(c, env, guildID, emojiID) ==
    LET es == IF c.st.emojis[guildID] = None THEN <<>>
              ELSE c.st.emojis[guildID][1]
        found == \E i \in 1..Len(es) : es[i].ID = emojiID
    IN Got(c, env, "Emoji", found,
           IF found THEN Some(es[CHOOSE i \in 1..Len(es) : es[i].ID = emojiID])
           ELSE None)

StoreRole(c, env, guildID, roleID) ==
    LET k == <<guildID, roleID>>
        found == roleID \in RoleIDs /\ c.st.roles[k] # None
    IN Got(c, env, "Role", found, IF found THEN c.st.roles[k] ELSE None)

StoreRoles(c, env, guildID) ==
    LET ids == {r \in RoleIDs : c.st.roles[<<guildID, r>>] # None}
        s == Sorted(ids)
    IN Got(c, env, "Roles", ids # {},
           Some([i \in 1..Len(s) |-> c.st.roles[<<guildID, s[i]>>][1]]))

StorePresence(c, env, guildID, userID) ==
    LET k == <<guildID, userID>>
    IN Got(c, env, "Presence", c.st.presences[k] # None, c.st.presences[k])

StorePresences(c, env, guildID) ==
    LET ids == {u \in UserIDs : c.st.presences[<<guildID, u>>] # None}
        s == Sorted(ids)
    IN Got(c, env, "Presences", ids # {},
           Some([i \in 1..Len(s) |-> c.st.presences[<<guildID, s[i]>>][1]]))

SelfSet(c, env, me) ==
    Put(c, env, "SelfSet", me, [c.st EXCEPT !.self = Some(me)])

ChannelSet(c, env, ch) ==
    Put(c, env, "ChannelSet", ch, [c.st EXCEPT !.channels[ch.ID] = Some(ch)])

GuildSet(c, env, g) ==
    Put(c, env, "GuildSet", g, [c.st EXCEPT !.guilds[g.ID] = Some(g)])

MemberSet(c, env, guildID, m) ==
    Put(c, env, "MemberSet", m,
        [c.st EXCEPT !.members[<<guildID, m.User.ID>>] = Some(m)])

-----------------------------------------------------------------------------
(* The REST client behind State.Session: a request named n fails when the  *)
(* oracle says so and else answers with the service's value.               *)

Fetched(c, env, n, val) ==
    LET e == IF n \in env.api THEN ErrFetch ELSE Nil
        v == IF e = Nil THEN Some(val) ELSE None
    IN Return(Logged(c, "api", n, e, v), v, e)

\* A request for something the service may not hold.
FetchedIf(c, env, n, exists, val) ==
    LET e == IF n \in env.api \/ ~exists THEN ErrFetch ELSE Nil
        v == IF e = Nil THEN Some(val) ELSE None
    IN Return(Logged(c, "api", n, e, v), v, e)

SessionMe(c, env) == Fetched(c, env, "Me", SelfUser)

SessionChannel(c, env, id) == Fetched(c, env, "Channel", ChannelRec(id))

SessionGuild(c, env, id) ==
    FetchedIf(c, env, "Guild", id \in GuildIDs, GuildRec(id))

SessionMember(c, env, guildID, userID) ==
    Fetched(c, env, "Member", MemberRec(userID))

SessionChannels(c, env, guildID) ==
    LET s == Sorted({i \in ChannelIDs : ChanGuild(i) = guildID})
    IN Fetched(c, env, "Channels", [i \in 1..Len(s) |-> ChannelRec(s[i])])

SessionEmojis(c, env, guildID) ==
    LET s == Sorted(EmojiIDs)
    IN Fetched(c, env, "Emojis", [i \in 1..Len(s) |-> EmojiRec(s[i])])

\* Session.Guilds(max) is Client.Guilds, the walk modelled below; here it
\* is one request answering the first max guilds of the session.
SessionGuilds(c, env, max) ==
    LET s == Sorted(GuildIDs)
    IN Fetched(c, env, "Guilds",
               [i \in 1..Min(Len(s), max) |-> GuildRec(s[i])])

SessionMembers(c, env, guildID, max) ==
    LET s == Sorted(UserIDs)
    IN Fetched(c, env, "Members",
               [i \in 1..Min(Len(s), max) |-> MemberRec(s[i])])

SessionRoles(c, env, guildID) ==
    Fetched(c, env, "Roles", [i \in 1..MaxRoles |-> RoleRec(i)])

\* Gateway.RequestGuildMembers.
RequestGuildMembers(c, env, guildID) ==
    LET e == IF env.gw THEN ErrGateway ELSE Nil
    IN [Logged(c, "gw", "RequestGuildMembers", e, Some(guildID)) EXCEPT
            !.err = e]

SessionMessage(c, env, channelID, messageID) ==
    FetchedIf(c, env, "Message", messageID \in Range(history[channelID]),
              MessageRec(channelID, messageID, 0))

\* The newest limit messages of the channel, newest first; the service
\* leaves their GuildID unset.
SessionMessages(c, env, channelID, limit) ==
    LET ids == history[channelID]
        n == Min(Len(ids), limit)
    IN Fetched(c, env, "Messages",
               [i \in 1..n |-> MessageRec(channelID, ids[Len(ids) - i + 1], 0)])

-----------------------------------------------------------------------------
(* State's read-through accessors (state/state.go).                        *)

\* Self had it skipped the Store: it asks the service on every call.
SelfAlwaysFetches(c, env) ==
    LET u == StoreSelf(c, env)
        f == SessionMe(u, env)
    IN IF f.err # Nil THEN Return(f, None, f.err)
       ELSE Return(SelfSet(f, env, f.val[1]), f.val,
                   SelfSet(f, env, f.val[1]).err)

Self(c, env) ==
    LET u == StoreSelf(c, env)
    IN IF u.err = Nil THEN u
       ELSE LET f == SessionMe(u, env)
            IN IF f.err # Nil THEN Return(f, None, f.err)
               ELSE Return(SelfSet(f, env, f.val[1]), f.val,
                           SelfSet(f, env, f.val[1]).err)

\* Channel had it kept the Store's error over the request's.
ChannelKeepsStoreError(c, env, id) ==
    LET r == StoreChannel(c, env, id)
    IN IF r.err = Nil THEN r
       ELSE LET f == SessionChannel(r, env, id)
            IN IF f.err # Nil THEN Return(f, None, r.err)
               ELSE Return(ChannelSet(f, env, f.val[1]), f.val,
                           ChannelSet(f, env, f.val[1]).err)

Channel(c, env, id) ==
    LET r == StoreChannel(c, env, id)
    IN IF r.err = Nil THEN r
       ELSE LET f == SessionChannel(r, env, id)
            IN IF f.err # Nil THEN Return(f, None, f.err)
               ELSE Return(ChannelSet(f, env, f.val[1]), f.val,
                           ChannelSet(f, env, f.val[1]).err)

\* Guild had it returned the fetched guild without storing it.
GuildNeverStores(c, env, id) ==
    LET r == StoreGuild(c, env, id)
    IN IF r.err = Nil THEN r
       ELSE LET f == SessionGuild(r, env, id)
            IN IF f.err # Nil THEN Return(f, None, f.err)
               ELSE Return(f, f.val, Nil)

Guild(c, env, id) ==
    LET r == StoreGuild(c, env, id)
    IN IF r.err = Nil THEN r
       ELSE LET f == SessionGuild(r, env, id)
            IN IF f.err # Nil THEN Return(f, None, f.err)
               ELSE Return(GuildSet(f, env, f.val[1]), f.val,
                           GuildSet(f, env, f.val[1]).err)

Member(c, env, guildID, userID) ==
    LET r == StoreMember(c, env, guildID, userID)
    IN IF r.err = Nil THEN r
       ELSE LET f == SessionMember(r, env, guildID, userID)
            IN IF f.err # Nil THEN Return(f, None, f.err)
               ELSE Return(MemberSet(f, env, guildID, f.val[1]), f.val,
                           MemberSet(f, env, guildID, f.val[1]).err)

\* state.go:16-17.
MaxFetchMembers == 1000
MaxFetchGuilds == 100

\* state.go:195-199.
RECURSIVE ChannelSetAll(_, _, _, _)
ChannelSetAll(c, env, chs, i) ==
    IF i > Len(chs) THEN Return(c, None, Nil)
    ELSE LET w == ChannelSet(c, env, chs[i])
         IN IF w.err # Nil THEN w ELSE ChannelSetAll(w, env, chs, i + 1)

Channels(c, env, guildID) ==
    LET r == StoreChannels(c, env, guildID)
    IN IF r.err = Nil THEN r
       ELSE LET f == SessionChannels(r, env, guildID)
            IN IF f.err # Nil THEN Return(f, None, f.err)
               ELSE LET w == ChannelSetAll(f, env, f.val[1], 1)
                    IN IF w.err # Nil THEN Return(w, None, w.err)
                       ELSE Return(w, f.val, Nil)

\* The scan of Emoji had it ended the way Role's does, with a nil error.
EmojiScanNoSentinel(es, emojiID) ==
    IF \E i \in 1..Len(es) : es[i].ID = emojiID
    THEN [val |-> Some(es[CHOOSE i \in 1..Len(es) : es[i].ID = emojiID]),
          err |-> Nil]
    ELSE [val |-> None, err |-> Nil]

\* state.go:223-229.
EmojiScan(es, emojiID) ==
    IF \E i \in 1..Len(es) : es[i].ID = emojiID
    THEN [val |-> Some(es[CHOOSE i \in 1..Len(es) : es[i].ID = emojiID]),
          err |-> Nil]
    ELSE [val |-> None, err |-> ErrStoreNotFound]

Emoji(c, env, guildID, emojiID) ==
    LET e == StoreEmoji(c, env, guildID, emojiID)
    IN IF e.err = Nil THEN e
       ELSE LET f == SessionEmojis(e, env, guildID)
            IN IF f.err # Nil THEN Return(f, None, f.err)
               ELSE LET w == EmojiSet(f, env, guildID, f.val[1])
                    IN IF w.err # Nil THEN Return(w, None, w.err)
                       ELSE Return(w, EmojiScan(f.val[1], emojiID).val,
                                   EmojiScan(f.val[1], emojiID).err)

Emojis(c, env, guildID) ==
    LET e == StoreEmojis(c, env, guildID)
    IN IF e.err = Nil THEN e
       ELSE LET f == SessionEmojis(e, env, guildID)
            IN IF f.err # Nil THEN Return(f, None, f.err)
               ELSE Return(EmojiSet(f, env, guildID, f.val[1]), f.val,
                           EmojiSet(f, env, guildID, f.val[1]).err)

\* state.go:274-278.
RECURSIVE GuildSetAll(_, _, _, _)
GuildSetAll(c, env, gs, i) ==
    IF i > Len(gs) THEN Return(c, None, Nil)
    ELSE LET w == GuildSet(c, env, gs[i])
         IN IF w.err # Nil THEN w ELSE GuildSetAll(w, env, gs, i + 1)

Guilds(c, env) ==
    LET r == StoreGuilds(c, env)
    IN IF r.err = Nil THEN r
       ELSE LET f == SessionGuilds(r, env, MaxFetchGuilds)
            IN IF f.err # Nil THEN Return(f, None, f.err)
               ELSE LET w == GuildSetAll(f, env, f.val[1], 1)
                    IN IF w.err # Nil THEN Return(w, None, w.err)
                       ELSE Return(w, f.val, Nil)

\* state.go:312-316.
RECURSIVE MemberSetAll(_, _, _, _, _)
MemberSetAll(c, env, guildID, ms, i) ==
    IF i > Len(ms) THEN Return(c, None, Nil)
    ELSE LET w == MemberSet(c, env, guildID, ms[i])
         IN IF w.err # Nil THEN w
            ELSE MemberSetAll(w, env, guildID, ms, i + 1)

\* Members had it sent the directive before storing the members.
MembersAsksBeforeStoring(c, env, guildID) ==
    LET r == StoreMembers(c, env, guildID)
    IN IF r.err = Nil THEN r
       ELSE LET f == SessionMembers(r, env, guildID, MaxFetchMembers)
            IN IF f.err # Nil THEN Return(f, None, f.err)
               ELSE LET q == RequestGuildMembers(f, env, guildID)
                        w == MemberSetAll(q, env, guildID, f.val[1], 1)
                    IN IF w.err # Nil THEN Return(w, None, w.err)
                       ELSE Return(w, f.val, q.err)

Members(c, env, guildID) ==
    LET r == StoreMembers(c, env, guildID)
    IN IF r.err = Nil THEN r
       ELSE LET f == SessionMembers(r, env, guildID, MaxFetchMembers)
            IN IF f.err # Nil THEN Return(f, None, f.err)
               ELSE LET w == MemberSetAll(f, env, guildID, f.val[1], 1)
                    IN IF w.err # Nil THEN Return(w, None, w.err)
                       ELSE Return(RequestGuildMembers(w, env, guildID), f.val,
                                   RequestGuildMembers(w, env, guildID).err)

\* Presence had it asked the gateway for the guild's members and presences
\* when the Store has none.
PresenceAsksGateway(c, env, guildID, userID) ==
    LET p == StorePresence(c, env, guildID, userID)
    IN IF p.err = Nil THEN p
       ELSE Return(RequestGuildMembers(p, env, guildID), None, p.err)

Presence(c, env, guildID, userID) == StorePresence(c, env, guildID, userID)

Presences(c, env, guildID) == StorePresences(c, env, guildID)

\* state.go:444-448: role = &r takes the address of the range variable r,
\* which the loop reassigns on every iteration (the module predates Go
\* 1.22's per-iteration variables), so a role matched at index matched
\* reads, when the loop stops at index cur, as the element at cur.
RolePointee(rs, matched, cur) == rs[cur]

\* state.go:446-454: the scan; matched is the index role was last set at
\* (0: role is nil).
RECURSIVE RoleScan(_, _, _, _, _, _, _)
RoleScan(c, env, guildID, roleID, rs, i, matched) ==
    IF i > Len(rs)
    THEN Return(c, IF matched = 0 THEN None
                   ELSE Some(RolePointee(rs, matched, Len(rs))), Nil)
    ELSE LET m == IF rs[i].ID = roleID THEN i ELSE matched
             w == RoleSet(c, env, guildID, rs[i])
         IN IF w.err # Nil
            THEN Return(w, IF m = 0 THEN None
                           ELSE Some(RolePointee(rs, m, i)), w.err)
            ELSE RoleScan(w, env, guildID, roleID, rs, i + 1, m)

\* Role had it answered a fetched collection without the role the way Emoji
\* does, with ErrStoreNotFound.
RoleNotFoundOnNoMatch(c, env, guildID, roleID) ==
    LET r == StoreRole(c, env, guildID, roleID)
    IN IF r.err = Nil THEN r
       ELSE LET f == SessionRoles(r, env, guildID)
            IN IF f.err # Nil THEN Return(f, None, f.err)
               ELSE LET s == RoleScan(f, env, guildID, roleID, f.val[1], 1, 0)
                    IN IF s.err = Nil /\ s.val = None
                       THEN Return(s, None, ErrStoreNotFound)
                       ELSE s

Role(c, env, guildID, roleID) ==
    LET r == StoreRole(c, env, guildID, roleID)
    IN IF r.err = Nil THEN r
       ELSE LET f == SessionRoles(r, env, guildID)
            IN IF f.err # Nil THEN Return(f, None, f.err)
               ELSE RoleScan(f, env, guildID, roleID, f.val[1], 1, 0)

\* state.go:470-474.
RECURSIVE RoleSetAll(_, _, _, _, _)
RoleSetAll(c, env, guildID, rs, i) ==
    IF i > Len(rs) THEN Return(c, None, Nil)
    ELSE LET w == RoleSet(c, env, guildID, rs[i])
         IN IF w.err # Nil THEN w ELSE RoleSetAll(w, env, guildID, rs, i + 1)

Roles(c, env, guildID) ==
    LET r == StoreRoles(c, env, guildID)
    IN IF r.err = Nil THEN r
       ELSE LET f == SessionRoles(r, env, guildID)
            IN IF f.err # Nil THEN Return(f, None, f.err)
               ELSE LET w == RoleSetAll(f, env, guildID, f.val[1], 1)
                    IN Return(w, f.val, w.err)

\* Message had it stored the message as fetched while returning the stamped
\* one.
MessageStoresUnstamped(c, env, channelID, messageID) ==
    LET r == StoreMessage(c, env, channelID, messageID)
    IN IF r.err = Nil THEN r
       ELSE LET f == SessionMessage(r, env, channelID, messageID)
            IN IF f.err # Nil THEN Return(f, None, f.err)
               ELSE LET ch == Channel(f, env, channelID)
                        m == IF ch.err = Nil
                             THEN [f.val[1] EXCEPT
                                       !.GuildID = ch.val[1].GuildID]
                             ELSE f.val[1]
                        w == MessageSet(ch, env, f.val[1])
                    IN Return(w, Some(m), w.err)

Message(c, env, channelID, messageID) ==
    LET r == StoreMessage(c, env, channelID, messageID)
    IN IF r.err = Nil THEN r
       ELSE LET f == SessionMessage(r, env, channelID, messageID)
            IN IF f.err # Nil THEN Return(f, None, f.err)
               ELSE LET ch == Channel(f, env, channelID)
                        m == IF ch.err = Nil
                             THEN [f.val[1] EXCEPT
                                       !.GuildID = ch.val[1].GuildID]
                             ELSE f.val[1]
                        w == MessageSet(ch, env, m)
                    IN Return(w, Some(m), w.err)

\* state.go:392-399: MessageSet on ms[lo], ..., ms[hi] in order, until one
\* fails.  The range is halved instead of walked so that the depth of the
\* evaluation grows with the logarithm of a page of a hundred messages.
RECURSIVE MessageSetAll(_, _, _, _, _)
MessageSetAll(c, env, ms, lo, hi) ==
    IF lo > hi THEN Return(c, None, Nil)
    ELSE IF lo = hi THEN MessageSet(c, env, ms[lo])
    ELSE LET mid == (lo + hi) \div 2
             left == MessageSetAll(c, env, ms, lo, mid)
         IN IF left.err # Nil THEN left
            ELSE MessageSetAll(left, env, ms, mid + 1, hi)

\* state.go:376: the page size of the fill.
MessagesFetchLimit == 100

\* The comparison of state.go:358 had it been strict.
StoreIsOverFull(maxMsgs, ms) == maxMsgs < Len(ms)

\* state.go:358: the Store is full, skip the API.
StoreIsFull(maxMsgs, ms) == maxMsgs <= Len(ms)

\* state.go:364-370: the channel is in the memo.
IsTiny(few, channelID) == \E i \in 1..Len(few) : few[i] = channelID

\* state.go:401: the fetched page marks a tiny channel.
PageIsTiny(ms, maxMsgs) == Len(ms) < maxMsgs

\* The return of state.go:412 had it not sliced the page.
PageWhole(ms, maxMsgs) == ms

\* state.go:412: what a full page returns.
PageSlice(ms, maxMsgs) == SubSeq(ms, 1, maxMsgs)

\* The loop of state.go:392 had it ranged over copies of the messages.
StampedCopies(ms, guildID) == ms

\* state.go:392-394: the guild stamped on the fetched messages.
Stamped(ms, guildID) ==
    [i \in 1..Len(ms) |-> [ms[i] EXCEPT !.GuildID = guildID]]

\* state.go:403-405: the channel joins the memo.
Flagged(c, channelID) ==
    [Logged(c, "few", "append", Nil, Some(channelID)) EXCEPT
        !.few = Append(@, channelID)]

Messages(c, env, channelID) ==
    LET maxMsgs == cap
        r == StoreMessages(c, env, channelID)
    IN IF r.err = Nil /\ StoreIsFull(maxMsgs, r.val[1]) THEN r
       ELSE IF r.err = Nil /\ IsTiny(r.few, channelID) THEN r
       ELSE LET f == SessionMessages(r, env, channelID, MessagesFetchLimit)
            IN IF f.err # Nil THEN Return(f, None, f.err)
               ELSE LET ch == Channel(f, env, channelID)
                        guildID == IF ch.err = Nil THEN ch.val[1].GuildID
                                   ELSE 0
                        ms == Stamped(f.val[1], guildID)
                        w == MessageSetAll(ch, env, ms, 1, Len(ms))
                    IN IF w.err # Nil THEN Return(w, None, w.err)
                       ELSE IF PageIsTiny(ms, maxMsgs)
                       THEN Return(Flagged(w, channelID), Some(ms), Nil)
                       ELSE Return(w, Some(PageSlice(ms, maxMsgs)), Nil)

-----------------------------------------------------------------------------
(* Permissions and the display helpers (state.go:79-150).                  *)

\* errors.Wrap(err, message): the error reads "message: err".
Wrap(err, message) == message \o ": " \o err

\* discord.CalcOverwrites(guild, channel, member), kept symbolic.
CalcOverwrites(g, ch, m) == [guild |-> g.ID, channel |-> ch.ID, member |-> m.User.ID]

\* Permissions had it returned the failure of a lookup as it is.
PermissionsUnwrapped(c, env, channelID, userID) ==
    LET ch == Channel(c, env, channelID)
    IN IF ch.err # Nil THEN Return(ch, Some(0), ch.err)
       ELSE LET g == Guild(ch, env, ch.val[1].GuildID)
            IN IF g.err # Nil THEN Return(g, Some(0), g.err)
               ELSE LET m == Member(g, env, ch.val[1].GuildID, userID)
                    IN IF m.err # Nil THEN Return(m, Some(0), m.err)
                       ELSE Return(m, Some(CalcOverwrites(g.val[1], ch.val[1],
                                                          m.val[1])), Nil)

Permissions(c, env, channelID, userID) ==
    LET ch == Channel(c, env, channelID)
    IN IF ch.err # Nil
       THEN Return(ch, Some(0), Wrap(ch.err, "Failed to get channel"))
       ELSE LET g == Guild(ch, env, ch.val[1].GuildID)
            IN IF g.err # Nil
               THEN Return(g, Some(0), Wrap(g.err, "Failed to get guild"))
               ELSE LET m == Member(g, env, ch.val[1].GuildID, userID)
                    IN IF m.err # Nil
                       THEN Return(m, Some(0),
                                   Wrap(m.err, "Failed to get member"))
                       ELSE Return(m, Some(CalcOverwrites(g.val[1], ch.val[1],
                                                          m.val[1])), Nil)

\* discord.User.Username and discord.Member.Nick as the service holds
\* them: the members of odd identifier have a nickname.
Username(u) == IF u.ID = 1 THEN "user one" ELSE "user two"
Nick(m) == IF m.User.ID % 2 = 1 THEN "nick" ELSE ""

\* discord.Snowflake.Valid.
Valid(id) == id # 0

\* discord.DefaultMemberColor, and discord.MemberColor(guild, member) kept
\* symbolic.
DefaultMemberColor == "default colour"
MemberColorOf(g, m) == [guild |-> g.ID, member |-> m.User.ID]

\* The message a display helper is given.
MessageOf(guildID, userID) == [GuildID |-> guildID, Author |-> UserRec(userID)]

MemberDisplayName(c, env, guildID, userID) ==
    LET m == Member(c, env, guildID, userID)
    IN IF m.err # Nil THEN Return(m, Some(""), m.err)
       ELSE IF Nick(m.val[1]) = ""
       THEN Return(m, Some(Username(m.val[1].User)), Nil)
       ELSE Return(m, Some(Nick(m.val[1])), Nil)

\* AuthorDisplayName had it kept the name of the failed lookup.
AuthorDisplayNameKeepsEmpty(c, env, message) ==
    IF ~Valid(message.GuildID)
    THEN Return(c, Some(Username(message.Author)), Nil)
    ELSE LET n == MemberDisplayName(c, env, message.GuildID, message.Author.ID)
         IN Return(n, n.val, Nil)

AuthorDisplayName(c, env, message) ==
    IF ~Valid(message.GuildID)
    THEN Return(c, Some(Username(message.Author)), Nil)
    ELSE LET n == MemberDisplayName(c, env, message.GuildID, message.Author.ID)
         IN IF n.err # Nil
            THEN Return(n, Some(Username(message.Author)), Nil)
            ELSE Return(n, n.val, Nil)

MemberColor(c, env, guildID, userID) ==
    LET m == Member(c, env, guildID, userID)
    IN IF m.err # Nil THEN Return(m, Some(DefaultMemberColor), Nil)
       ELSE LET g == Guild(m, env, guildID)
            IN IF g.err # Nil THEN Return(g, Some(DefaultMemberColor), Nil)
               ELSE Return(g, Some(MemberColorOf(g.val[1], m.val[1])), Nil)

AuthorColor(c, env, message) ==
    IF ~Valid(message.GuildID) THEN Return(c, Some(DefaultMemberColor), Nil)
    ELSE MemberColor(c, env, message.GuildID, message.Author.ID)

-----------------------------------------------------------------------------
(* Client.Guilds (api/guild.go): the walk over the guilds of the session.  *)
(* The service holds the guilds SourceID(1) < ... < SourceID(T) and        *)
(* answers a page request with the first limit of them above the cursor.   *)

\* guild.go:52.
hardLimit == 100

SourceID(i) == 3 * i

\* guild.go:96-102: the limit GuildsRange transmits.
GuildsRangeLimit(limit) ==
    IF limit = 0 THEN 100 ELSE IF limit > 100 THEN 100 ELSE limit

\* What the service answers to a request for the guilds after a cursor.
ServedGuilds(total, after, limit) ==
    LET k == Cardinality({i \in 1..total : SourceID(i) <= after})
    IN [j \in 1..Min(limit, total - k) |-> GuildRec(SourceID(k + j))]

\* guild.go:93-121 through guild.go:86-90: one page request; it fails when
\* fails says so.
GuildsAfter(total, after, limit, fails) ==
    [after |-> after,
     limit |-> GuildsRangeLimit(limit),
     err   |-> IF fails THEN ErrFetch ELSE Nil,
     gs    |-> IF fails THEN <<>>
               ELSE ServedGuilds(total, after, GuildsRangeLimit(limit))]

\* The page size had guild.go:56-58 not lowered it to what is left of max.
WalkFetchUnclamped(max) == hardLimit

\* guild.go:54-58: the size of the next page.
WalkFetch(max) == IF hardLimit > max THEN max ELSE hardLimit

\* guild.go:68: the page ends the walk.
WalkBreaks(g) == Len(g) < hardLimit

\* The cursor had guild.go:72 taken the first guild of the page.
WalkAfterFirst(g) == g[1].ID

\* guild.go:72: the cursor of the next page.
WalkAfter(g) == g[hardLimit].ID

\* The iteration had guild.go:62 returned nil in place of the guilds so far.
WalkPageDropsOnError(w, fails) ==
    LET fetch == WalkFetch(w.max)
        p == GuildsAfter(w.total, w.after, fetch, fails)
        w1 == [w EXCEPT !.max = @ - fetch, !.reqs = Append(@, p)]
    IN IF p.err # Nil
       THEN [w1 EXCEPT !.pc = "done", !.err = p.err, !.guilds = <<>>]
       ELSE IF WalkBreaks(p.gs)
       THEN [w1 EXCEPT !.pc = "done", !.guilds = @ \o p.gs]
       ELSE [w1 EXCEPT !.guilds = @ \o p.gs, !.after = WalkAfter(p.gs)]

\* guild.go:54-73: one iteration of the loop of Client.Guilds.
WalkPage(w, fails) ==
    LET fetch == WalkFetch(w.max)
        p == GuildsAfter(w.total, w.after, fetch, fails)
        w1 == [w EXCEPT !.max = @ - fetch, !.reqs = Append(@, p)]
    IN IF p.err # Nil THEN [w1 EXCEPT !.pc = "done", !.err = p.err]
       ELSE IF WalkBreaks(p.gs)
       THEN [w1 EXCEPT !.pc = "done", !.guilds = @ \o p.gs]
       ELSE [w1 EXCEPT !.guilds = @ \o p.gs, !.after = WalkAfter(p.gs)]

-----------------------------------------------------------------------------
(* The state machine: one action per accessor call.                        *)

\* No goroutine has started its call of State.Channel.
NoCallers ==
    [i \in 1..MaxCallers |->
        [pc |-> "read", val |-> None, err |-> Nil, n |-> 0, stored |-> FALSE]]

\* No goroutine has started a call of State.Messages; each makes at most
\* MaxCalls of them.
NoRunning ==
    [i \in 1..MaxCallers |->
        [pc |-> "idle", ch |-> 0, ms |-> <<>>, k |-> 0, val |-> None,
         err |-> Nil, left |-> MaxCalls]]

NoCall == [op |-> "none", key |-> <<>>, val |-> None, err |-> Nil, log |-> <<>>]

NoWalk == [pc |-> "idle", asked |-> 0, total |-> 0, max |-> 0, after |-> 0,
           guilds |-> <<>>, reqs |-> <<>>, err |-> Nil]

Ctx == [st |-> store, few |-> fewMessages, log |-> <<>>, val |-> None, err |-> Nil]

\* The call op(key) ran to completion and left the context r.
Finish(op, key, r) ==
    /\ store' = r.st
    /\ fewMessages' = r.few
    /\ last' = [op |-> op, key |-> key, val |-> r.val, err |-> r.err,
                log |-> r.log]
    /\ UNCHANGED <<cap, history, focus, walk, callers, remote, fewMutex, running>>

\* Accessors of different entity types, and the messages of different
\* channels, read and write disjoint parts of the Store.  A behaviour
\* exercises one part: the accessors of the session-wide entities, or the
\* roles, emojis and presences of the guilds, the messages of one channel
\* together with that channel, or the walk of Client.Guilds.
Foci ==
    {[part |-> "entities", ch |-> 0], [part |-> "roles", ch |-> 0],
     [part |-> "guilds", ch |-> 0]}
        \cup {[part |-> "messages", ch |-> c] : c \in ChannelIDs}

InFocus(chs) == IF focus.part = "messages" THEN chs \cap {focus.ch} ELSE chs

\* A step of the environment: no call is on record after it.
Env(st) ==
    /\ store' = st
    /\ last' = NoCall
    /\ UNCHANGED <<fewMessages, cap, focus, walk, callers, remote, fewMutex, running>>

CallSelf ==
    /\ focus.part = "entities"
    /\ \E env \in Envs({"Self"}, {"Me"}, 1, {FALSE}) :
           Finish("Self", <<>>, Self(Ctx, env))

CallChannel ==
    /\ focus.part \in {"entities", "messages"}
    /\ \E id \in InFocus(ChannelIDs),
          env \in Envs({"Channel"}, {"Channel"}, 1, {FALSE}) :
           Finish("Channel", <<id>>, Channel(Ctx, env, id))

CallGuild ==
    /\ focus.part = "entities"
    /\ \E id \in GuildIDs, env \in Envs({"Guild"}, {"Guild"}, 1, {FALSE}) :
           Finish("Guild", <<id>>, Guild(Ctx, env, id))

CallMember ==
    /\ focus.part = "entities"
    /\ \E g \in GuildIDs, u \in UserIDs,
          env \in Envs({"Member"}, {"Member"}, 1, {FALSE}) :
           Finish("Member", <<g, u>>, Member(Ctx, env, g, u))

CallChannels ==
    /\ focus.part = "entities"
    /\ \E g \in GuildIDs,
          env \in Envs({"Channels"}, {"Channels"}, Cardinality(ChannelIDs),
                       {FALSE}) :
           Finish("Channels", <<g>>, Channels(Ctx, env, g))

CallGuilds ==
    /\ focus.part = "entities"
    /\ \E env \in Envs({"Guilds"}, {"Guilds"}, Cardinality(GuildIDs),
                        {FALSE}) :
           Finish("Guilds", <<>>, Guilds(Ctx, env))

CallMembers ==
    /\ focus.part = "entities"
    /\ \E g \in GuildIDs,
          env \in Envs({"Members"}, {"Members"}, Cardinality(UserIDs),
                       BOOLEAN) :
           Finish("Members", <<g>>, Members(Ctx, env, g))

CallEmoji ==
    /\ focus.part = "roles"
    /\ \E g \in GuildIDs, e \in EmojiIDs \cup {Cardinality(EmojiIDs) + 1},
          env \in Envs({"Emoji"}, {"Emojis"}, 1, {FALSE}) :
           Finish("Emoji", <<g, e>>, Emoji(Ctx, env, g, e))

CallEmojis ==
    /\ focus.part = "roles"
    /\ \E g \in GuildIDs, env \in Envs({"Emojis"}, {"Emojis"}, 1, {FALSE}) :
           Finish("Emojis", <<g>>, Emojis(Ctx, env, g))

CallRole ==
    /\ focus.part = "roles"
    /\ \E g \in GuildIDs, r \in RoleIDs \cup {MaxRoles + 1},
          env \in Envs({"Role"}, {"Roles"}, MaxRoles, {FALSE}) :
           Finish("Role", <<g, r>>, Role(Ctx, env, g, r))

CallRoles ==
    /\ focus.part = "roles"
    /\ \E g \in GuildIDs,
          env \in Envs({"Roles"}, {"Roles"}, MaxRoles, {FALSE}) :
           Finish("Roles", <<g>>, Roles(Ctx, env, g))

CallPresence ==
    /\ focus.part = "roles"
    /\ \E g \in GuildIDs, u \in UserIDs,
          env \in Envs({"Presence"}, {}, 0, {FALSE}) :
           Finish("Presence", <<g, u>>, Presence(Ctx, env, g, u))

CallPresences ==
    /\ focus.part = "roles"
    /\ \E g \in GuildIDs, env \in Envs({"Presences"}, {}, 0, {FALSE}) :
           Finish("Presences", <<g>>, Presences(Ctx, env, g))

CallMessage ==
    /\ focus.part = "messages"
    /\ \E ch \in InFocus(ChannelIDs), m \in MessageIDs,
          env \in Envs({"Message"}, {"Message", "Channel"}, 2, {FALSE}) :
           Finish("Message", <<ch, m>>, Message(Ctx, env, ch, m))

\* fewMessages only grows; the calls that would take it past MaxFew entries
\* are left out.
CallMessages ==
    /\ focus.part = "messages"
    /\ \E ch \in InFocus(ChannelIDs),
          env \in Envs({"Messages"}, {"Messages", "Channel"}, MaxHist + 1,
                       {FALSE}) :
           /\ Len(Messages(Ctx, env, ch).few) <= MaxFew
           /\ Finish("Messages", <<ch>>, Messages(Ctx, env, ch))

CallPermissions ==
    /\ focus.part = "entities"
    /\ \E ch \in ChannelIDs, u \in UserIDs,
          env \in Envs({}, {"Channel", "Guild", "Member"}, 3, {FALSE}) :
           Finish("Permissions", <<ch, u>>, Permissions(Ctx, env, ch, u))

CallMemberDisplayName ==
    /\ focus.part = "entities"
    /\ \E g \in GuildIDs, u \in UserIDs,
          env \in Envs({"Member"}, {"Member"}, 1, {FALSE}) :
           Finish("MemberDisplayName", <<g, u>>,
                  MemberDisplayName(Ctx, env, g, u))

CallAuthorDisplayName ==
    /\ focus.part = "entities"
    /\ \E g \in GuildIDs \cup {0}, u \in UserIDs,
          env \in Envs({"Member"}, {"Member"}, 1, {FALSE}) :
           Finish("AuthorDisplayName", <<g, u>>,
                  AuthorDisplayName(Ctx, env, MessageOf(g, u)))

CallMemberColor ==
    /\ focus.part = "entities"
    /\ \E g \in GuildIDs, u \in UserIDs,
          env \in Envs({}, {"Member", "Guild"}, 2, {FALSE}) :
           Finish("MemberColor", <<g, u>>, MemberColor(Ctx, env, g, u))

CallAuthorColor ==
    /\ focus.part = "entities"
    /\ \E g \in GuildIDs \cup {0}, u \in UserIDs,
          env \in Envs({}, {"Member", "Guild"}, 2, {FALSE}) :
           Finish("AuthorColor", <<g, u>>,
                  AuthorColor(Ctx, env, MessageOf(g, u)))

\* state.go:171-174: after the Store read, a goroutine returns what the
\* Store held or goes on to the request.
AfterRead(k, r) ==
    IF r.err = Nil THEN [k EXCEPT !.pc = "done", !.val = r.val, !.err = Nil]
    ELSE [k EXCEPT !.pc = "fetch"]

\* The goroutine had it started over after a failed request.
AfterFetchRetries(k, f) ==
    IF f.err # Nil THEN [k EXCEPT !.pc = "read", !.n = @ + 1]
    ELSE [k EXCEPT !.pc = "set", !.val = f.val, !.n = @ + 1]

\* state.go:176-179: after the request, a goroutine returns the request's
\* error or goes on to store the channel.
AfterFetch(k, f) ==
    IF f.err # Nil
    THEN [k EXCEPT !.pc = "done", !.val = None, !.err = f.err, !.n = @ + 1]
    ELSE [k EXCEPT !.pc = "set", !.val = f.val, !.n = @ + 1]

\* state.go:181: the goroutine returns the fetched channel and the error
\* of ChannelSet.
AfterSet(k, w) ==
    [k EXCEPT !.pc = "done", !.err = w.err, !.stored = (w.err = Nil)]

\* The channel the goroutines ask for, as the service holds it now.
RemoteChannel == [ID |-> 1, GuildID |-> ChanGuild(1), Version |-> remote]

\* state.go:171: s.Store.Channel(id), by goroutine i.
CoRead(i) ==
    /\ focus.part = "concurrent"
    /\ callers[i].pc = "read"
    /\ \E env \in Envs({"Channel"}, {}, 0, {FALSE}) :
          callers' = [callers EXCEPT ![i] =
                          AfterRead(@, StoreChannel(Ctx, env, RemoteChannel.ID))]
    /\ UNCHANGED <<store, fewMessages, cap, history, focus, last, walk, remote, fewMutex, running>>

\* state.go:176: s.Session.Channel(id), by goroutine i.
CoFetch(i) ==
    /\ focus.part = "concurrent"
    /\ callers[i].pc = "fetch"
    /\ \E env \in Envs({}, {"Channel"}, 0, {FALSE}) :
          callers' = [callers EXCEPT ![i] =
                          AfterFetch(@, Fetched(Ctx, env, "Channel", RemoteChannel))]
    /\ UNCHANGED <<store, fewMessages, cap, history, focus, last, walk, remote, fewMutex, running>>

\* state.go:181: s.Store.ChannelSet(c), by goroutine i.
CoSet(i) ==
    /\ focus.part = "concurrent"
    /\ callers[i].pc = "set"
    /\ \E env \in Envs({}, {}, 1, {FALSE}) :
          LET w == ChannelSet(Ctx, env, callers[i].val[1])
          IN /\ store' = w.st
             /\ callers' = [callers EXCEPT ![i] = AfterSet(@, w)]
    /\ UNCHANGED <<fewMessages, cap, history, focus, last, walk, remote, fewMutex, running>>

\* The channel changes at the service while the goroutines run.
RemoteChange ==
    /\ focus.part = "concurrent"
    /\ remote < MaxRemote
    /\ remote' = remote + 1
    /\ UNCHANGED <<store, fewMessages, cap, history, focus, last, walk, callers,
                   fewMutex, running>>

\* The gateway delivers a message the service has just received; the
\* handler stores it.
PushMessageCreate ==
    /\ focus.part = "messages"
    /\ \E ch \in InFocus(ChannelIDs), m \in MessageIDs :
          /\ \A x \in Range(history[ch]) : x < m
          /\ history' = [history EXCEPT ![ch] = Append(@, m)]
          /\ Env(MessageSet(Ctx, [wr |-> 0],
                            MessageRec(ch, m, ChanGuild(ch))).st)

\* The gateway delivers the deletion of a message; the handler removes it.
PushMessageDelete ==
    /\ focus.part \in {"messages", "memo"}
    /\ \E ch \in InFocus(ChannelIDs), m \in MessageIDs :
          /\ m \in Range(history[ch])
          /\ history' = [history EXCEPT ![ch] =
                                            SelectSeq(@, LAMBDA x : x # m)]
          /\ Env(MessageRemove(store, ch, m))

\* The gateway delivers a presence update; the handler stores it.
PushPresenceUpdate ==
    /\ focus.part = "roles"
    /\ UNCHANGED history
    /\ \E g \in GuildIDs, u \in UserIDs :
          Env(PresenceSet(store, g, PresenceRec(u)))

\* The gateway delivers the deletion of a channel; the handler removes it.
PushChannelDelete ==
    /\ focus.part \in {"entities", "messages"}
    /\ UNCHANGED history
    /\ \E ch \in InFocus(ChannelIDs) :
          /\ store.channels[ch] # None
          /\ Env(ChannelRemove(store, ChannelRec(ch)))

\* Store.Reset.
Reset ==
    /\ store # EmptyStore
    /\ UNCHANGED history
    /\ Env(EmptyStore)

\* The sizes a walk is tried with: around each multiple of the page size.
WalkSizes ==
    {n \in 0..(MaxPages * hardLimit + 1) :
        \E k \in 0..MaxPages, d \in {-1, 0, 1} : n = k * hardLimit + d}

\* Client.Guilds(max) is called against a service holding total guilds.
GuildsBegin ==
    /\ focus.part = "guilds"
    /\ walk.pc = "idle"
    /\ \E max \in WalkSizes, total \in WalkSizes :
          walk' = [NoWalk EXCEPT !.pc = "loop", !.asked = max, !.max = max,
                                 !.total = total]
    /\ UNCHANGED <<store, fewMessages, cap, history, focus, last, callers, remote, fewMutex, running>>

\* guild.go:54: the loop runs while max > 0.
GuildsPage ==
    /\ walk.pc = "loop"
    /\ walk.max > 0
    /\ \E fails \in BOOLEAN : walk' = WalkPage(walk, fails)
    /\ UNCHANGED <<store, fewMessages, cap, history, focus, last, callers, remote, fewMutex, running>>

\* guild.go:75.
GuildsReturn ==
    /\ walk.pc = "loop"
    /\ walk.max = 0
    /\ walk' = [walk EXCEPT !.pc = "done"]
    /\ UNCHANGED <<store, fewMessages, cap, history, focus, last, callers, remote, fewMutex, running>>

\* Messages called in a session whose Store keeps MaxMessages() near the
\* page size of the fill.
CallMessagesCap ==
    \E ch \in InFocus(ChannelIDs),
       env \in Envs({"Messages"}, {"Messages", "Channel"}, 0, {FALSE}) :
        /\ Len(Messages(Ctx, env, ch).few) <= MaxFew
        /\ Finish("Messages", <<ch>>, Messages(Ctx, env, ch))

Init ==
    /\ store = EmptyStore
    /\ fewMessages = <<>>
    /\ cap \in 1..CapSmall
    /\ focus \in Foci
    /\ \E h \in 0..MaxHist :
          history = [c \in ChannelIDs |->
                         IF c = focus.ch THEN [i \in 1..h |-> i] ELSE <<>>]
    /\ last = NoCall
    /\ walk = NoWalk
    /\ callers = NoCallers
    /\ remote = 1
    /\ fewMutex = 0
    /\ running = NoRunning

Next ==
    \/ CallSelf
    \/ CallChannel
    \/ CallGuild
    \/ CallMember
    \/ CallChannels
    \/ CallGuilds
    \/ CallMembers
    \/ CallEmoji
    \/ CallEmojis
    \/ CallRole
    \/ CallRoles
    \/ CallPresence
    \/ CallPresences
    \/ CallMessage
    \/ CallMessages
    \/ PushMessageCreate
    \/ PushMessageDelete
    \/ PushPresenceUpdate
    \/ PushChannelDelete
    \/ Reset
    \/ GuildsBegin
    \/ GuildsPage
    \/ GuildsReturn

Spec == Init /\ [][Next]_vars

\* The walks of Client.Guilds alone.
\* The limits GuildsAfter is called with directly: around the two ends of
\* the range GuildsRange transmits.
DirectLimits ==
    {0, 1, hardLimit - 1, hardLimit, hardLimit + 1, MaxPages * hardLimit}

\* guild.go:86-90: GuildsAfter(after, limit) called on its own, in place of
\* a walk, against a service holding total guilds; walk.asked keeps the
\* limit it was called with.
CallGuildsAfter ==
    /\ focus.part = "guilds"
    /\ walk.pc = "idle"
    /\ \E limit \in DirectLimits, after \in {0, SourceID(1)},
          total \in {0, 1, hardLimit + 1}, fails \in BOOLEAN :
           LET p == GuildsAfter(total, after, limit, fails)
           IN walk' = [NoWalk EXCEPT !.pc = "direct", !.asked = limit,
                                     !.total = total, !.after = after,
                                     !.reqs = <<p>>, !.guilds = p.gs,
                                     !.err = p.err]
    /\ UNCHANGED <<store, fewMessages, cap, history, focus, last, callers,
                   remote, fewMutex, running>>

InitGuilds == Init /\ focus.part = "guilds"

NextGuilds ==
    \/ GuildsBegin
    \/ GuildsPage
    \/ GuildsReturn

SpecGuilds == InitGuilds /\ [][NextGuilds]_vars

\* The walk and the page request on its own.  A call of Client.Guilds that
\* has started keeps running: each page request returns, with a page or an
\* error.
NextWalk ==
    \/ GuildsBegin
    \/ GuildsPage
    \/ GuildsReturn
    \/ CallGuildsAfter

SpecWalk ==
    InitGuilds /\ [][NextWalk]_vars /\ WF_vars(GuildsPage \/ GuildsReturn)

\* Messages with MaxMessages() and the history around the page size.
InitCap ==
    /\ store = EmptyStore
    /\ fewMessages = <<>>
    /\ cap \in (MaxCap - 3)..MaxCap
    /\ focus \in {f \in Foci : f.part = "messages"}
    /\ \E h \in (MaxCap - 4)..(MaxCap + 1) :
          history = [c \in ChannelIDs |->
                         IF c = focus.ch THEN [i \in 1..h |-> i] ELSE <<>>]
    /\ last = NoCall
    /\ walk = NoWalk
    /\ callers = NoCallers
    /\ remote = 1
    /\ fewMutex = 0
    /\ running = NoRunning

NextCap == CallMessagesCap

SpecCap == InitCap /\ [][NextCap]_vars

\* Permissions and the display helpers, with the lookups they are built on.
InitHelpers == Init /\ focus.part = "entities" /\ cap = 1

NextHelpers ==
    \/ CallChannel
    \/ CallGuild
    \/ CallMember
    \/ CallPermissions
    \/ CallMemberDisplayName
    \/ CallAuthorDisplayName
    \/ CallMemberColor
    \/ CallAuthorColor
    \/ PushChannelDelete
    \/ Reset

SpecHelpers == InitHelpers /\ [][NextHelpers]_vars

\* MaxCallers goroutines call State.Channel for one channel the Store has
\* never held.  A goroutine that can take a step eventually takes it.
InitConcurrent ==
    /\ store = EmptyStore
    /\ fewMessages = <<>>
    /\ cap = 1
    /\ focus = [part |-> "concurrent", ch |-> 0]
    /\ history = [c \in ChannelIDs |-> <<>>]
    /\ last = NoCall
    /\ walk = NoWalk
    /\ callers = NoCallers
    /\ remote = 1
    /\ fewMutex = 0
    /\ running = NoRunning

NextConcurrent ==
    \/ \E i \in 1..MaxCallers : CoRead(i)
    \/ \E i \in 1..MaxCallers : CoFetch(i)
    \/ \E i \in 1..MaxCallers : CoSet(i)
    \/ RemoteChange

SpecConcurrent ==
    /\ InitConcurrent
    /\ [][NextConcurrent]_vars
    /\ \A i \in 1..MaxCallers :
          WF_vars(CoRead(i) \/ CoFetch(i) \/ CoSet(i))

-----------------------------------------------------------------------------
(* State.Messages (state.go:351-413) in several goroutines at once.  Each  *)
(* Store call, each request and each critical section of fewMutex is one    *)
(* step; the steps of the goroutines interleave freely.                    *)

\* The call of goroutine record r returns val and err.
Returned(r, val, err) == [r EXCEPT !.pc = "done", !.val = val, !.err = err]

\* state.go:401-412, after the write loop: a tiny page goes on to the memo,
\* a full one is sliced and returned.
AfterLoop(r) ==
    IF PageIsTiny(r.ms, cap) THEN [r EXCEPT !.pc = "lock2"]
    ELSE Returned(r, Some(PageSlice(r.ms, cap)), Nil)

\* state.go:351: goroutine i calls Messages(ch).
MeBegin(i) ==
    /\ focus.part = "memo"
    /\ running[i].pc \in {"idle", "done"}
    /\ running[i].left > 0
    /\ \E ch \in ChannelIDs :
          running' = [running EXCEPT ![i] =
                          [pc |-> "read", ch |-> ch, ms |-> <<>>, k |-> 0,
                           val |-> None, err |-> Nil, left |-> @.left - 1]]
    /\ UNCHANGED <<store, fewMessages, cap, history, focus, last, walk,
                   callers, remote, fewMutex>>

\* state.go:353-360: s.Store.Messages(channelID) and the test of a full
\* Store.
MeRead(i) ==
    /\ focus.part = "memo"
    /\ running[i].pc = "read"
    /\ \E env \in Envs({"Messages"}, {}, 0, {FALSE}) :
          LET r == StoreMessages(Ctx, env, running[i].ch)
          IN running' = [running EXCEPT ![i] =
                 IF r.err = Nil /\ StoreIsFull(cap, r.val[1])
                 THEN Returned(@, r.val, Nil)
                 ELSE IF r.err = Nil
                 THEN [@ EXCEPT !.pc = "lock", !.ms = r.val[1]]
                 ELSE [@ EXCEPT !.pc = "fetch"]]
    /\ UNCHANGED <<store, fewMessages, cap, history, focus, last, walk,
                   callers, remote, fewMutex>>

\* state.go:363: s.fewMutex.Lock() before the scan.
MeLock(i) ==
    /\ focus.part = "memo"
    /\ running[i].pc = "lock"
    /\ fewMutex = 0
    /\ fewMutex' = i
    /\ running' = [running EXCEPT ![i].pc = "scan"]
    /\ UNCHANGED <<store, fewMessages, cap, history, focus, last, walk,
                   callers, remote>>

\* state.go:364-373: the scan of fewMessages and the Unlock on either way
\* out of it.
MeScan(i) ==
    /\ focus.part = "memo"
    /\ running[i].pc = "scan"
    /\ fewMutex' = 0
    /\ running' = [running EXCEPT ![i] =
                       IF IsTiny(fewMessages, @.ch)
                       THEN Returned(@, Some(@.ms), Nil)
                       ELSE [@ EXCEPT !.pc = "fetch"]]
    /\ UNCHANGED <<store, fewMessages, cap, history, focus, last, walk,
                   callers, remote>>

\* state.go:376-379: s.Session.Messages(channelID, 100).
MeFetch(i) ==
    /\ focus.part = "memo"
    /\ running[i].pc = "fetch"
    /\ \E env \in Envs({}, {"Messages"}, 0, {FALSE}) :
          LET f == SessionMessages(Ctx, env, running[i].ch,
                                   MessagesFetchLimit)
          IN running' = [running EXCEPT ![i] =
                 IF f.err # Nil THEN Returned(@, None, f.err)
                 ELSE [@ EXCEPT !.pc = "channel", !.ms = f.val[1]]]
    /\ UNCHANGED <<store, fewMessages, cap, history, focus, last, walk,
                   callers, remote, fewMutex>>

\* state.go:383-394: s.Channel(channelID) and the guild the loop stamps.
MeChannel(i) ==
    /\ focus.part = "memo"
    /\ running[i].pc = "channel"
    /\ \E env \in Envs({}, {"Channel"}, 0, {FALSE}) :
          LET c == Channel(Ctx, env, running[i].ch)
              guildID == IF c.err = Nil THEN c.val[1].GuildID ELSE 0
              ms == Stamped(running[i].ms, guildID)
          IN /\ store' = c.st
             /\ running' = [running EXCEPT ![i] =
                    IF ms = <<>> THEN AfterLoop([@ EXCEPT !.ms = ms])
                    ELSE [@ EXCEPT !.pc = "set", !.ms = ms, !.k = 1]]
    /\ UNCHANGED <<fewMessages, cap, history, focus, last, walk, callers,
                   remote, fewMutex>>

\* state.go:392-399: one s.Store.MessageSet(&ms[i]) of the loop.
MeSet(i) ==
    /\ focus.part = "memo"
    /\ running[i].pc = "set"
    /\ \E env \in Envs({}, {}, 1, {FALSE}) :
          LET w == MessageSet(Ctx, env, running[i].ms[running[i].k])
          IN /\ store' = w.st
             /\ running' = [running EXCEPT ![i] =
                    IF w.err # Nil THEN Returned(@, None, w.err)
                    ELSE IF @.k = Len(@.ms) THEN AfterLoop(@)
                    ELSE [@ EXCEPT !.k = @ + 1]]
    /\ UNCHANGED <<fewMessages, cap, history, focus, last, walk, callers,
                   remote, fewMutex>>

\* state.go:403: s.fewMutex.Lock() before the append.
MeLock2(i) ==
    /\ focus.part = "memo"
    /\ running[i].pc = "lock2"
    /\ fewMutex = 0
    /\ fewMutex' = i
    /\ running' = [running EXCEPT ![i].pc = "append"]
    /\ UNCHANGED <<store, fewMessages, cap, history, focus, last, walk,
                   callers, remote>>

\* state.go:404-407: the append, the Unlock and the return.
MeAppend(i) ==
    /\ focus.part = "memo"
    /\ running[i].pc = "append"
    /\ fewMessages' = Append(fewMessages, running[i].ch)
    /\ fewMutex' = 0
    /\ running' = [running EXCEPT ![i] = Returned(@, Some(@.ms), Nil)]
    /\ UNCHANGED <<store, cap, history, focus, last, walk, callers, remote>>

\* A session with an empty Store whose first channel holds up to MaxHist
\* messages at the service.
InitMemo ==
    /\ store = EmptyStore
    /\ fewMessages = <<>>
    /\ cap \in 1..CapSmall
    /\ focus = [part |-> "memo", ch |-> 0]
    /\ \E h \in 0..MaxHist :
          history = [c \in ChannelIDs |->
                         IF c = 1 THEN [i \in 1..h |-> i] ELSE <<>>]
    /\ last = NoCall
    /\ walk = NoWalk
    /\ callers = NoCallers
    /\ remote = 1
    /\ fewMutex = 0
    /\ running = NoRunning

NextMemo ==
    \/ \E i \in 1..MaxCallers : MeBegin(i)
    \/ \E i \in 1..MaxCallers : MeRead(i)
    \/ \E i \in 1..MaxCallers : MeLock(i)
    \/ \E i \in 1..MaxCallers : MeScan(i)
    \/ \E i \in 1..MaxCallers : MeFetch(i)
    \/ \E i \in 1..MaxCallers : MeChannel(i)
    \/ \E i \in 1..MaxCallers : MeSet(i)
    \/ \E i \in 1..MaxCallers : MeLock2(i)
    \/ \E i \in 1..MaxCallers : MeAppend(i)
    \/ PushMessageDelete
    \/ Reset

SpecMemo == InitMemo /\ [][NextMemo]_vars

-----------------------------------------------------------------------------
(* Reading the record of the last call.                                    *)

Apis(l) == Kind(l.log, "api")
Sets(l) == Kind(l.log, "set")

\* The call started with a Store read that returned no error.
Warm(l) == l.op # "none" /\ l.log[1].k = "get" /\ l.log[1].e = Nil

\* The call started with a Store read that reported the key missing.
Missed(l) == l.op # "none" /\ l.log[1].k = "get"
                 /\ l.log[1].e = ErrStoreNotFound

\* The call's Store read failed and so did the request that followed it.
FetchFailed(l) ==
    /\ l.op # "none"
    /\ Len(l.log) >= 2
    /\ l.log[1].k = "get" /\ l.log[1].e # Nil
    /\ l.log[2].k = "api" /\ l.log[2].e # Nil

\* The oracles under which no Store read fails.
ReadsWork == [rd : {{}}, api : SUBSET {"Me", "Channel", "Guild", "Member",
                                      "Messages"},
              wr : 0..1, gw : {FALSE}]

\* The accessor call op(key) made from the current state.
Again(op, key, env) ==
    CASE op = "Self" -> Self(Ctx, env)
      [] op = "Channel" -> Channel(Ctx, env, key[1])
      [] op = "Guild" -> Guild(Ctx, env, key[1])
      [] op = "Member" -> Member(Ctx, env, key[1], key[2])
      [] op = "Messages" -> Messages(Ctx, env, key[1])

SingularOps == {"Self", "Channel", "Guild", "Member"}

HotOps == {"Self", "Channel", "Channels", "Emoji", "Emojis", "Guild",
           "Guilds", "Member", "Members", "Message", "Role", "Roles"}

ReadThroughOps == HotOps \cup {"Messages"}

IDs(ms) == [i \in 1..Len(ms) |-> ms[i].ID]

\* fewMessages did not hold the call's channel when the call began: every
\* occurrence there now is one the call appended.
UnflaggedBefore(l) ==
    Len(SelectSeq(fewMessages, LAMBDA ch : ch = l.key[1]))
        = Len(Kind(l.log, "few"))

-----------------------------------------------------------------------------
(* C1: a first lookup by Self, Channel, Guild or Member of a key the Store *)
(* does not hold makes exactly one request; when the call returns no       *)
(* error the Store holds the fetched value, and a lookup of the same key   *)
(* made next, with nothing in between, makes no request and returns the    *)
(* value the first one returned.                                           *)
C1_FirstFetchesSecondDoesNot ==
    (last.op \in SingularOps /\ Missed(last)) =>
        /\ Len(Apis(last)) = 1
        /\ last.err = Nil =>
              \A env \in ReadsWork :
                  LET r == Again(last.op, last.key, env)
                  IN /\ r.log[1].v = Apis(last)[1].v
                     /\ Apis(r) = <<>>
                     /\ r.err = Nil
                     /\ r.val = last.val

C1_Witness ==
    /\ last.op = "Member" /\ Missed(last) /\ last.err = Nil
    /\ last.val = Some(MemberRec(last.key[2]))

(* C2: an accessor other than Messages whose Store read returns no error   *)
(* returns what the Store returned and does nothing else: no request, no   *)
(* gateway command, no Store write.                                        *)
C2_HotPath ==
    (last.op \in HotOps /\ Warm(last)) =>
        /\ last.val = last.log[1].v
        /\ last.err = Nil
        /\ Len(last.log) = 1

C2_Witness == last.op = "Members" /\ Warm(last) /\ Len(last.val[1]) = 2

(* C3: when the Store read fails and the request for the entity or         *)
(* collection fails too, the accessor returns the request's error as it    *)
(* is, and the call changes neither the Store nor fewMessages.             *)
C3_FetchErrorPropagates ==
    [][(last'.op \in ReadThroughOps /\ FetchFailed(last')) =>
          /\ last'.err = last'.log[2].e
          /\ last'.val = None
          /\ Len(last'.log) = 2
          /\ store' = store
          /\ fewMessages' = fewMessages]_vars

C3_Witness ==
    /\ last.op = "Messages" /\ FetchFailed(last) /\ last.err = ErrFetch
    /\ store.messages[last.key[1]] # None

(* C4: a walk that no request failed returns the first min(max, total)     *)
(* guilds of the service, in identifier order, each once.                  *)
C4_GuildsReturnsMin ==
    (walk.pc = "done" /\ walk.err = Nil) =>
        IDs(walk.guilds) =
            [j \in 1..Min(walk.asked, walk.total) |-> SourceID(j)]

C4_Witness ==
    /\ walk.pc = "done" /\ walk.err = Nil
    /\ Len(walk.reqs) = 3
    /\ walk.total < walk.asked
    /\ Len(walk.guilds) = walk.total

\* The guilds the walk's first i requests were asked for.
RECURSIVE Requested(_, _)
Requested(reqs, i) == IF i = 0 THEN 0 ELSE reqs[i].limit + Requested(reqs, i - 1)

(* C5: the first page request of a walk has no cursor; each later one has  *)
(* the identifier of the last guild of the page before it, and is made     *)
(* only when that page had the size asked for and the guilds asked for so  *)
(* far are fewer than max.                                                 *)
C5_CursorFollowsPages ==
    \A i \in 1..Len(walk.reqs) :
        IF i = 1 THEN walk.reqs[i].after = 0
        ELSE LET p == walk.reqs[i - 1]
             IN /\ p.err = Nil
                /\ Len(p.gs) = p.limit
                /\ walk.reqs[i].after = p.gs[Len(p.gs)].ID
                /\ Requested(walk.reqs, i - 1) < walk.asked

C5_Witness ==
    /\ Len(walk.reqs) = 3
    /\ walk.reqs[3].after = SourceID(2 * hardLimit)
    /\ walk.reqs[3].err = Nil

(* C6: for a channel whose history at the service is shorter than          *)
(* MaxMessages(), of which the Store holds no message and which is not in  *)
(* fewMessages, a Messages call that returns no error made one request for *)
(* messages and put the channel in fewMessages, and a second call made     *)
(* next makes no request and returns the same messages.                    *)
C6_MemoStopsSecondFetch ==
    (/\ last.op = "Messages"
     /\ last.log[1].e = ErrStoreNotFound \/ last.log[1].v = Some(<<>>)
     /\ UnflaggedBefore(last)
     /\ Len(history[last.key[1]]) < cap
     /\ last.err = Nil) =>
        /\ Len(SelectSeq(last.log, LAMBDA x : x.k = "api" /\ x.n = "Messages")) = 1
        /\ IsTiny(fewMessages, last.key[1])
        /\ \A env \in ReadsWork :
              LET r == Again("Messages", last.key, env)
              IN /\ Apis(r) = <<>>
                 /\ r.err = Nil
                 /\ Range(r.val[1]) = Range(last.val[1])

(* C7: when the Store returns at least MaxMessages() messages of the       *)
(* channel, Messages returns exactly those, makes no request, writes       *)
(* nothing to the Store and leaves fewMessages as it is.                   *)
C7_FullStoreSkipsApi ==
    [][(/\ last'.op = "Messages" /\ Warm(last')
        /\ Len(last'.log[1].v[1]) >= cap) =>
          /\ last'.val = last'.log[1].v
          /\ last'.val = store.messages[last'.key[1]]
          /\ last'.err = Nil
          /\ Len(last'.log) = 1
          /\ store' = store
          /\ fewMessages' = fewMessages]_vars

C7_Witness ==
    /\ last.op = "Messages" /\ Warm(last)
    /\ Len(last.log[1].v[1]) >= cap
    /\ last.val = store.messages[last.key[1]]

\* The page a Messages fill fetched (<<>> when it fetched none).
Page(l) ==
    LET f == SelectSeq(l.log, LAMBDA x : x.k = "api" /\ x.n = "Messages"
                                             /\ x.e = Nil)
    IN IF f = <<>> THEN <<>> ELSE f[1].v[1]

(* C8: a Messages fill that fetched at least MaxMessages() messages and    *)
(* returned no error returned the first MaxMessages() of them in fetched   *)
(* order, did not put the channel in fewMessages, and gave every fetched   *)
(* message to MessageSet.                                                  *)
C8_FullPageIsSliced ==
    (/\ last.op = "Messages" /\ Apis(last) # <<>> /\ last.err = Nil
     /\ Len(Page(last)) >= cap) =>
        /\ IDs(last.val[1]) = SubSeq(IDs(Page(last)), 1, cap)
        /\ Kind(last.log, "few") = <<>>
        /\ \A i \in 1..Len(Page(last)) :
              \E j \in 1..Len(last.log) :
                  /\ last.log[j].k = "set" /\ last.log[j].n = "MessageSet"
                  /\ last.log[j].e = Nil
                  /\ last.log[j].v[1].ID = Page(last)[i].ID

C8_Witness ==
    /\ last.op = "Messages" /\ last.err = Nil
    /\ Len(Page(last)) > cap
    /\ Len(last.val[1]) = cap

(* C9: a channel is put in fewMessages only when its history at the        *)
(* service holds fewer than MaxMessages() messages.                        *)
C9_FlaggedOnlyIfSmall ==
    (last.op = "Messages" /\ Kind(last.log, "few") # <<>>) =>
        Len(history[last.key[1]]) < cap

(* C10: when the Store misses and the fetched roles contain the requested  *)
(* identifier, Role returns the role with that identifier, wherever it     *)
(* stands in the fetched collection.                                       *)
C10_RoleReturnsTheMatch ==
    (/\ last.op = "Role" /\ ~Warm(last)
     /\ Apis(last) # <<>> /\ Apis(last)[1].e = Nil
     /\ last.key[2] \in Range(IDs(Apis(last)[1].v[1]))
     /\ last.err = Nil) =>
        last.val # None /\ last.val[1].ID = last.key[2]


\* The call fetched a collection after a Store read that failed, and no
\* Store write it made failed.
ColdFill(l) ==
    /\ l.op # "none" /\ ~Warm(l)
    /\ Apis(l) # <<>> /\ Apis(l)[1].e = Nil
    /\ \A i \in 1..Len(Sets(l)) : Sets(l)[i].e = Nil

(* C11: when the Store read fails, the roles are fetched, the requested    *)
(* identifier is not among them and no write fails, Roles returns the      *)
(* fetched collection and Role returns nil, both with a nil error, and     *)
(* every fetched role has been given to RoleSet and is in the Store.       *)
C11_MissingRoleIsNilNoError ==
    (/\ last.op \in {"Role", "Roles"} /\ ColdFill(last)
     /\ last.op = "Role" =>
            last.key[2] \notin Range(IDs(Apis(last)[1].v[1]))) =>
        /\ last.err = Nil
        /\ last.op = "Role" => last.val = None
        /\ last.op = "Roles" => last.val = Apis(last)[1].v
        /\ [i \in 1..Len(Sets(last)) |-> Sets(last)[i].v[1]] = Apis(last)[1].v[1]
        /\ \A i \in 1..Len(Apis(last)[1].v[1]) :
              store.roles[<<last.key[1], Apis(last)[1].v[1][i].ID>>]
                  = Some(Apis(last)[1].v[1][i])

C11_Witness ==
    /\ last.op = "Role" /\ ColdFill(last)
    /\ last.key[2] = MaxRoles + 1
    /\ last.val = None /\ last.err = Nil
    /\ Len(Sets(last)) = MaxRoles


(* C12: when the Store read fails and the emojis are fetched, Emoji gives  *)
(* the whole fetched collection to EmojiSet before it scans: a failed      *)
(* write returns nil and the write's error whatever the collection holds;  *)
(* after the write the Store holds the collection and the call returns the *)
(* emoji with the requested identifier when the collection holds it, and   *)
(* nil with ErrStoreNotFound when it does not.                             *)
C12_EmojiStoresThenScans ==
    (/\ last.op = "Emoji" /\ ~Warm(last)
     /\ Apis(last) # <<>> /\ Apis(last)[1].e = Nil) =>
        LET es == Apis(last)[1].v[1]
        IN /\ Len(last.log) = 3
           /\ last.log[3].k = "set" /\ last.log[3].n = "EmojiSet"
           /\ last.log[3].v = Some(es)
           /\ IF last.log[3].e # Nil
              THEN last.val = None /\ last.err = last.log[3].e
              ELSE /\ store.emojis[last.key[1]] = Some(es)
                   /\ IF last.key[2] \in Range(IDs(es))
                      THEN /\ last.err = Nil
                           /\ last.val # None
                           /\ last.val[1] \in Range(es)
                           /\ last.val[1].ID = last.key[2]
                      ELSE last.val = None /\ last.err = ErrStoreNotFound

C12_Witness ==
    /\ last.op = "Emoji" /\ ColdFill(last)
    /\ last.key[2] \notin EmojiIDs
    /\ last.err = ErrStoreNotFound
    /\ store.emojis[last.key[1]] # None


(* C13: Presence and Presences make one Store read and nothing else (no    *)
(* request, no gateway command, no Store write) and return the value and   *)
(* the error of that read, whatever they are.                              *)
C13_PresenceIsStoreOnly ==
    (last.op \in {"Presence", "Presences"}) =>
        /\ Len(last.log) = 1
        /\ last.log[1].k = "get" /\ last.log[1].n = last.op
        /\ last.val = last.log[1].v
        /\ last.err = last.log[1].e

C13_Witness ==
    /\ last.op = "Presence" /\ last.err = ErrStoreNotFound
    /\ \E k \in DOMAIN store.presences : store.presences[k] # None


\* The last outward call of the call failed: the lookup it belongs to did.
LookupFailed(l) == l.log # <<>> /\ l.log[Len(l.log)].e # Nil

StageLabels ==
    <<"Failed to get channel", "Failed to get guild", "Failed to get member">>

(* C14: Permissions looks up the channel, then the guild, then the member, *)
(* and stops at the first lookup that fails: nothing follows the failed    *)
(* call, the error returned is that failure wrapped with the label of its  *)
(* stage and the value is 0; with no failure all three lookups are made    *)
(* and the permissions computed from them are returned with a nil error.   *)
C14_PermissionsStopsAtFirstFailure ==
    (last.op = "Permissions") =>
        LET gets == Kind(last.log, "get")
            n == Len(gets)
            final == last.log[Len(last.log)]
        IN /\ n \in 1..3
           /\ [i \in 1..n |-> gets[i].n]
                  = SubSeq(<<"Channel", "Guild", "Member">>, 1, n)
           /\ \A i \in 1..(Len(last.log) - 1) :
                  last.log[i].k \in {"api", "set"} => last.log[i].e = Nil
           /\ IF final.e # Nil
              THEN /\ last.err = Wrap(final.e, StageLabels[n])
                   /\ last.val = Some(0)
              ELSE /\ n = 3
                   /\ last.err = Nil
                   /\ last.val = Some([guild |-> ChanGuild(last.key[1]),
                                       channel |-> last.key[1],
                                       member |-> last.key[2]])

C14_Witness ==
    /\ last.op = "Permissions"
    /\ last.key[1] = 1
    /\ last.err = Wrap(ErrFetch, "Failed to get guild")
    /\ Len(Kind(last.log, "get")) = 2
    /\ store.channels[1] # None

HelperOps ==
    {"AuthorDisplayName", "MemberDisplayName", "AuthorColor", "MemberColor"}

\* What a display helper answers when it has nothing better.
HelperDefault(l) ==
    IF l.op \in {"AuthorDisplayName", "MemberDisplayName"}
    THEN Some(Username(UserRec(l.key[2])))
    ELSE Some(DefaultMemberColor)

(* C15, as claimed: none of the four display helpers returns an error, and *)
(* each answers its default (the username, the default colour) when a      *)
(* lookup under it fails.                                                  *)
C15_HelpersNeverFail ==
    (last.op \in HelperOps) =>
        /\ last.err = Nil
        /\ LookupFailed(last) => last.val = HelperDefault(last)

(* C15, amended: AuthorDisplayName, AuthorColor and MemberColor return no  *)
(* error and answer their default when a lookup under them fails;          *)
(* MemberDisplayName returns the error of a failed Member lookup as it is, *)
(* with an empty name, and else the nickname or, without one, the          *)
(* username.                                                               *)
C15_HelpersSwallowButMemberDisplayName ==
    /\ (last.op \in HelperOps \ {"MemberDisplayName"}) =>
          /\ last.err = Nil
          /\ LookupFailed(last) => last.val = HelperDefault(last)
    /\ (last.op = "MemberDisplayName") =>
          IF LookupFailed(last)
          THEN /\ last.err = last.log[Len(last.log)].e
               /\ last.val = Some("")
          ELSE /\ last.err = Nil
               /\ last.val \in {Some(Nick(MemberRec(last.key[2]))),
                                 Some(Username(UserRec(last.key[2])))}
               /\ last.val # Some("")

C15_Witness ==
    /\ last.op = "AuthorDisplayName" /\ LookupFailed(last)
    /\ last.err = Nil
    /\ last.val = Some(Username(UserRec(last.key[2])))


(* C16: Members sends the RequestGuildMembers directive at most once, and  *)
(* exactly when the Store read failed, the request succeeded and every     *)
(* fetched member was stored; the directive is then the last thing the     *)
(* call does, after one MemberSet per fetched member.  When it fails the   *)
(* call returns its error together with the fetched members, which stay in *)
(* the Store.                                                              *)
C16_DirectiveAfterFill ==
    (last.op = "Members") =>
        LET gws == Kind(last.log, "gw")
            final == last.log[Len(last.log)]
        IN /\ Len(gws) <= 1
           /\ (Len(gws) = 1) <=> (ColdFill(last) /\ Apis(last)[1].n = "Members")
           /\ (Len(gws) = 1) =>
                 LET ms == Apis(last)[1].v[1]
                 IN /\ final.k = "gw" /\ final.n = "RequestGuildMembers"
                    /\ final.v = Some(last.key[1])
                    /\ [i \in 1..Len(Sets(last)) |-> Sets(last)[i].v[1]] = ms
                    /\ last.err = final.e
                    /\ last.val = Some(ms)
                    /\ \A i \in 1..Len(ms) :
                          store.members[<<last.key[1], ms[i].User.ID>>]
                              = Some(ms[i])

C16_Witness ==
    /\ last.op = "Members" /\ last.err = ErrGateway
    /\ last.val # None /\ Len(last.val[1]) = Cardinality(UserIDs)
    /\ \A u \in UserIDs : store.members[<<last.key[1], u>>] # None


AllReturned == \A i \in 1..MaxCallers : callers[i].pc = "done"

\* The requests the goroutines have made so far.
RECURSIVE FetchesUpTo(_)
FetchesUpTo(i) == IF i = 0 THEN 0 ELSE callers[i].n + FetchesUpTo(i - 1)

(* C17: MaxCallers goroutines look up the same channel, never seen before, *)
(* at the same time.  Under every interleaving they make at most           *)
(* MaxCallers requests between them, every goroutine returns, and once all *)
(* have returned at least one request was made and the Store holds for the *)
(* channel the value fetched by a goroutine whose ChannelSet succeeded     *)
(* (nothing when no ChannelSet did).                                       *)
C17_ConcurrentColdLookups ==
    /\ [](FetchesUpTo(MaxCallers) <= MaxCallers)
    /\ [](AllReturned =>
            /\ FetchesUpTo(MaxCallers) >= 1
            /\ IF \E i \in 1..MaxCallers : callers[i].stored
               THEN \E i \in 1..MaxCallers :
                        /\ callers[i].stored /\ callers[i].n = 1
                        /\ store.channels[RemoteChannel.ID] = callers[i].val
               ELSE store.channels[RemoteChannel.ID] = None)
    /\ <>AllReturned

C17_Witness ==
    /\ AllReturned
    /\ FetchesUpTo(MaxCallers) = MaxCallers
    /\ \A i \in 1..MaxCallers : callers[i].stored
    /\ \E i, j \in 1..MaxCallers : callers[i].val # callers[j].val


(* C18: once a channel is in fewMessages, no Messages call for it requests *)
(* its messages again, whatever happened in between.                       *)
C18_FlaggedNeverFetchesAgain ==
    [][(/\ last'.op = "Messages"
        /\ IsTiny(fewMessages, last'.key[1])) =>
          \A i \in 1..Len(last'.log) :
              ~(last'.log[i].k = "api" /\ last'.log[i].n = "Messages")]_vars


\* The Store reads of the channel that the call made and that failed.
ChannelMisses(l) ==
    SelectSeq(l.log, LAMBDA x : x.k = "get" /\ x.n = "Channel" /\ x.e # Nil)

(* C19: a Message call whose Store read fails makes exactly one request,   *)
(* whatever the Store holds for the channel, and a fetched message is      *)
(* given to MessageSet before it is returned.                              *)
C19_MessageMissOneRequest ==
    (last.op = "Message" /\ ~Warm(last)) =>
        /\ Len(Apis(last)) = 1
        /\ Apis(last)[1].e = Nil =>
              /\ last.log[Len(last.log)].k = "set"
              /\ last.log[Len(last.log)].v = last.val

(* C19 as amended: a Message call whose Store read fails makes exactly one *)
(* request for the message; when it fails that is the only request and     *)
(* nothing is written.  When it succeeds the call looks the channel up,    *)
(* which makes one further request, for the channel, exactly when the      *)
(* Store read of the channel fails; the last thing the call does is give   *)
(* the message it returns to MessageSet, whose error it returns.           *)
C19_MessageMissOneMessageRequest ==
    (last.op = "Message" /\ ~Warm(last)) =>
        LET a == Apis(last)
            n == Len(last.log)
        IN /\ Len(a) \in {1, 2}
           /\ a[1].n = "Message"
           /\ last.log[2] = a[1]
           /\ a[1].e # Nil =>
                 /\ Len(a) = 1 /\ Sets(last) = <<>>
                 /\ last.val = None /\ last.err = a[1].e
           /\ a[1].e = Nil =>
                 /\ Len(a) = 1 + Len(ChannelMisses(last))
                 /\ Len(a) = 2 => a[2].n = "Channel"
                 /\ last.log[n].k = "set" /\ last.log[n].n = "MessageSet"
                 /\ last.log[n].v = last.val
                 /\ last.err = last.log[n].e
                 /\ last.val[1].ID = last.key[2]

C19_Witness ==
    /\ last.op = "Message" /\ ~Warm(last) /\ last.err = Nil
    /\ Len(Apis(last)) = 2
    /\ last.val[1].GuildID = 1


\* The call's request for the messages, when it made one that succeeded.
FetchedPage(l) ==
    SelectSeq(l.log, LAMBDA x : x.k = "api" /\ x.n = "Messages" /\ x.e = Nil)

\* The messages the call gave to MessageSet.
Written(l) == SelectSeq(l.log, LAMBDA x : x.k = "set" /\ x.n = "MessageSet")

\* The Channel lookup inside the call returned no error: the Store had the
\* channel, or the channel was fetched and ChannelSet took it.
ChannelResolved(l) ==
    \/ \E i \in 1..Len(l.log) :
           l.log[i].k = "get" /\ l.log[i].n = "Channel" /\ l.log[i].e = Nil
    \/ /\ \E i \in 1..Len(l.log) :
              l.log[i].k = "api" /\ l.log[i].n = "Channel" /\ l.log[i].e = Nil
       /\ \E i \in 1..Len(l.log) :
              l.log[i].k = "set" /\ l.log[i].n = "ChannelSet" /\ l.log[i].e = Nil

\* Every message the call wrote, and every message it returned, carries g.
AllCarry(l, g) ==
    /\ \A i \in 1..Len(Written(l)) : Written(l)[i].v[1].GuildID = g
    /\ l.err = Nil => \A i \in 1..Len(l.val[1]) : l.val[1][i].GuildID = g

(* C20: after a Messages call that fetched, every fetched message, as      *)
(* written to the Store and as returned, carries the guild of its channel, *)
(* looked up once, which is zero only when the channel has no guild.       *)
C20_FetchedCarryChannelGuild ==
    (last.op = "Messages" /\ FetchedPage(last) # <<>>) =>
        /\ Len(SelectSeq(last.log,
                         LAMBDA x : x.k = "get" /\ x.n = "Channel")) = 1
        /\ AllCarry(last, ChanGuild(last.key[1]))

(* C20 as amended: after a Messages call that fetched, the channel is      *)
(* looked up once, and every fetched message, as written to the Store and  *)
(* as returned, carries the guild of its channel when that lookup returned *)
(* no error and zero when it returned an error; so zero when the channel   *)
(* has no guild or the lookup failed.                                      *)
C20_FetchedCarryGuildOfLookup ==
    (last.op = "Messages" /\ FetchedPage(last) # <<>>) =>
        /\ Len(SelectSeq(last.log,
                         LAMBDA x : x.k = "get" /\ x.n = "Channel")) = 1
        /\ Len(Written(last)) <= Len(FetchedPage(last)[1].v[1])
        /\ last.err = Nil => Len(Written(last)) = Len(FetchedPage(last)[1].v[1])
        /\ AllCarry(last, IF ChannelResolved(last)
                          THEN ChanGuild(last.key[1]) ELSE 0)

C20_Witness ==
    /\ last.op = "Messages" /\ FetchedPage(last) # <<>> /\ last.err = Nil
    /\ Len(Apis(last)) = 2 /\ ChannelResolved(last)
    /\ Len(last.val[1]) = 2
    /\ last.val[1][2].GuildID = 1


\* The guilds of the first i pages of the walk, in order.
RECURSIVE PagesUpTo(_, _)
PagesUpTo(reqs, i) ==
    IF i = 0 THEN <<>> ELSE PagesUpTo(reqs, i - 1) \o reqs[i].gs

\* The page requests max allows: max / 100 rounded up.
PageBudget(max) == (max + hardLimit - 1) \div hardLimit

(* C21: a walk of Client.Guilds ends; it makes at most max / 100 rounded   *)
(* up page requests, each transmitting a limit in 1..100; no request       *)
(* follows a page shorter than 100 or a failed request; a failed request   *)
(* ends the walk with the guilds of the earlier pages and the error; and   *)
(* GuildsRange transmits 100 for a limit of 0 or above 100.                *)
C21_WalkEndsWithinBudget ==
    /\ [](/\ walk.pc # "direct" => Len(walk.reqs) <= PageBudget(walk.asked)
          /\ \A i \in 1..Len(walk.reqs) :
                /\ walk.reqs[i].limit \in 1..hardLimit
                /\ i < Len(walk.reqs) =>
                      /\ walk.reqs[i].err = Nil
                      /\ Len(walk.reqs[i].gs) = hardLimit
          /\ \A i \in 1..Len(walk.reqs) :
                walk.reqs[i].err # Nil =>
                    /\ walk.pc # "loop" /\ walk.err = walk.reqs[i].err
                    /\ walk.guilds = PagesUpTo(walk.reqs, i - 1)
          /\ walk.pc = "direct" =>
                walk.reqs[1].limit = IF walk.asked \in 1..hardLimit
                                     THEN walk.asked ELSE hardLimit)
    /\ (walk.pc = "loop" ~> walk.pc = "done")

C21_Witness ==
    /\ walk.pc = "done" /\ walk.err # Nil
    /\ Len(walk.reqs) = 2 /\ Len(walk.guilds) = hardLimit
    /\ walk.asked = hardLimit + 1


\* How often the channel occurs in fewMessages.
Flags(ch) == Len(SelectSeq(fewMessages, LAMBDA x : x = ch))

\* fewMutex is held only inside the two critical sections, by the
\* goroutine that is in one: not by a goroutine that has returned, has not
\* called, or is at a Store call or a request.
MutexOnlyInSections ==
    /\ \A i \in 1..MaxCallers :
          fewMutex = i <=> running[i].pc \in {"scan", "append"}
    /\ fewMutex \in 0..MaxCallers

(* C22: whatever the interleaving of Messages calls of several goroutines, *)
(* removes delivered by the gateway and Store.Reset, no channel occurs     *)
(* twice in fewMessages, and fewMutex is never held by a goroutine that    *)
(* has returned or is at a request.                                        *)
C22_MemoIsASet ==
    /\ \A ch \in ChannelIDs : Flags(ch) <= 1
    /\ MutexOnlyInSections

=============================================================================
